---- MODULE Spec2Model ----
(***************************************************************************)
(* Model of passbot: the pass extraction loop of                           *)
(* SatellitePassCalculator.calculate_passes (satellite_pass_tracker.py)    *)
(* and the batch driver main/process_satellites                            *)
(* (satellite_batch_tracker.py).                                           *)
(***************************************************************************)
EXTENDS Integers, Sequences, FiniteSets, TLC

(***************************************************************************)
(* Bounds of the model.                                                    *)
(***************************************************************************)
\* longest event stream find_events delivers to one calculate_passes call
MaxLen == 6
\* largest step between the timestamps of two consecutive events; a step
\* of 0 is two events whose utc_datetime() coincide
MaxGap == 1
\* most satellites listed in the batch configuration
MaxSats == 2
\* most calendar events one track_satellite call creates
MaxLinks == 1
\* most track_satellite calls made on one calendar
MaxRuns == 2

(***************************************************************************)
(* Program constants.                                                      *)
(***************************************************************************)
\* event codes of find_events as tested by the loop
RISE == 0
CULMINATION == 1
SET == 2
EventKinds == {RISE, CULMINATION, SET}
\* default of the min_elevation parameter of calculate_passes
min_elevation == 10
\* elevations (whole degrees) altaz() may report at a culmination: one
\* below the threshold and one above it
Elevations == {5, 45}
\* the five fields of the SatellitePass dataclass
PassFields ==
    {"rise_time", "culmination_time", "set_time", "max_elevation",
     "satellite_name"}
\* satellite names a TLE may carry
SatelliteNames == {"ISS"}
\* names given to satellites in config.yaml
ConfigNames == {"ISS", "NOAA 19"}
\* what an entry of the satellites list may consist of
EntryKeys == {{"name", "url"}, {"name"}, {"url"}}
\* states of a JSON file probed by main
FileStates == {"absent", "invalid", "valid"}
\* names bound in the module namespace of satellite_batch_tracker.py by
\* its top-level import, assignment and def statements
BatchModuleGlobals ==
    {"sys", "yaml", "logging", "datetime", "SatellitePassTracker", "logger",
     "load_config", "process_satellites", "main"}

VARIABLES
    stream,         \* the (ti, event) pairs zip(t, events) has yielded so far
    current_pass,   \* the dict accumulating the open pass
    passes,         \* the list of SatellitePass built so far
    pc,             \* "loop" | "done" | "raised": position in calculate_passes
    result,         \* the returned list (<<>> until the call returns)
    satellite_name, \* the satellite_name argument of the call
    second_result,  \* the list a second call on the same events returns
    files,          \* state of service-account.json, credentials.json, token.json
    config,         \* content of config.yaml
    outcomes,       \* what track_satellite does for each listed satellite
    auth_ok,        \* whether SatellitePassTracker(...) can authenticate
    bpc,            \* "main" | "config" | "process" | "exit": position in main
    exit_code,      \* process exit status of the batch (-1 while running)
    attempted,      \* names for which track_satellite was called, in order
    failed_satellites,      \* names appended at line 81
    successful_satellites,  \* counter of line 77
    total_events,           \* counter of line 76
    calendar,       \* the events of the Google calendar
    deleted_count,  \* what the last delete_satellite_events call returned
    last_delete,    \* arguments of that call and whether every delete worked
    tpc,            \* position in track_satellite: "idle" | "delete" | "calc"
                    \* | "create" | "returned" | "raised"
    runs,           \* number of track_satellite calls started
    tle_name,       \* the name parsed from the TLE
    delete_existing,\* the delete_existing argument
    track_days,     \* the days_ahead argument
    track_passes,   \* the list calculate_passes returned to track_satellite
    event_links,    \* ids of the events this call has inserted
    insert_failed   \* indices of the passes whose insert raised in this call

extractorVars ==
    <<stream, current_pass, passes, pc, result, satellite_name, second_result>>

batchEnv == <<files, config, outcomes, auth_ok>>

batchVars ==
    <<files, config, outcomes, auth_ok, bpc, exit_code, attempted,
      failed_satellites, successful_satellites, total_events>>

calendarVars == <<calendar, deleted_count, last_delete>>

trackVars ==
    <<tpc, runs, tle_name, delete_existing, track_days, track_passes,
      event_links, insert_failed>>

vars == <<extractorVars, batchVars, calendarVars, trackVars>>

(***************************************************************************)
(* Python dict helpers.                                                    *)
(***************************************************************************)
EmptyDict == <<>>

DictSet(d, k, v) ==
    [x \in (DOMAIN d) \cup {k} |-> IF x = k THEN v ELSE d[x]]

Has(d, k) == k \in DOMAIN d

(***************************************************************************)
(* The branches of the loop body.                                          *)
(***************************************************************************)
\* mutant: the rise is stored into the existing dict instead of a new one
OnRiseKeepFields(cp, dt) == DictSet(cp, "rise_time", dt)

\* mutant: a pending rise is kept when a second RISE arrives
OnRiseKeepFirst(cp, dt) ==
    IF Has(cp, "rise_time") THEN cp ELSE [rise_time |-> dt]

\* event == 0: current_pass = {'rise_time': dt}
OnRise(cp, dt) == [rise_time |-> dt]

\* mutant: the altitude is read in radians instead of degrees
AltDegreesAsRadians(alt) == (alt * 314) \div 18000

\* alt.degrees of the altaz() evaluated at the culmination instant
AltDegrees(alt) == alt

\* mutant: the culmination is recorded without an open rise
OnCulminationUnguarded(cp, dt, alt) ==
    DictSet(DictSet(cp, "culmination_time", dt),
            "max_elevation", AltDegrees(alt))

\* mutant: the culmination time is recorded but not the elevation
OnCulminationNoElevation(cp, dt, alt) ==
    IF Has(cp, "rise_time")
    THEN DictSet(cp, "culmination_time", dt)
    ELSE cp

\* mutant: the time of the latest culmination is kept with the highest
\* elevation seen since the rise
OnCulminationMaxElevation(cp, dt, alt) ==
    IF Has(cp, "rise_time")
    THEN DictSet(DictSet(cp, "culmination_time", dt),
                 "max_elevation",
                 IF Has(cp, "max_elevation")
                        /\ cp["max_elevation"] > AltDegrees(alt)
                 THEN cp["max_elevation"]
                 ELSE AltDegrees(alt))
    ELSE cp

\* event == 1: record culmination_time and max_elevation if a rise is open
OnCulmination(cp, dt, alt) ==
    IF Has(cp, "rise_time")
    THEN DictSet(DictSet(cp, "culmination_time", dt),
                 "max_elevation", AltDegrees(alt))
    ELSE cp

\* event == 2: the guard of the Set branch
SetReady(cp) == Has(cp, "rise_time") /\ Has(cp, "culmination_time")

\* event == 2: the record handed to SatellitePass(**current_pass)
SetRecord(cp, dt, name) ==
    DictSet(DictSet(cp, "set_time", dt), "satellite_name", name)

\* SatellitePass(**d) raises TypeError unless d has exactly the five fields
ConstructorAccepts(d) == DOMAIN d = PassFields

\* mutant: the new pass is put at the front of the list
EmitFirst(ps, p) == <<p>> \o ps

\* passes.append(SatellitePass(**current_pass))
Emit(ps, p) == Append(ps, p)

\* mutant: the dict is not cleared after a pass is emitted
AfterEmitKeep(cp) == cp

\* current_pass = {} after a pass is emitted
AfterEmit(cp) == EmptyDict

\* mutant: an open pass with a culmination is flushed at the end of the stream
ReturnFlushingOpenPass(ps, cp, name) ==
    IF SetReady(cp)
    THEN Append(ps, SetRecord(cp, cp["culmination_time"], name))
    ELSE ps

\* return passes
ReturnValue(ps, cp, name) == ps

\* one iteration of  for ti, event in zip(t, events)  on the loop state
\* st = [current_pass, passes, raised]
LoopBody(st, ev, name) ==
    IF st.raised THEN st
    ELSE IF ev.event = RISE
    THEN [st EXCEPT !.current_pass = OnRise(st.current_pass, ev.t)]
    ELSE IF ev.event = CULMINATION
    THEN [st EXCEPT !.current_pass =
                        OnCulmination(st.current_pass, ev.t, ev.alt)]
    ELSE IF ev.event = SET /\ SetReady(st.current_pass)
    THEN LET d == SetRecord(st.current_pass, ev.t, name)
         IN  IF ConstructorAccepts(d)
             THEN [current_pass |-> AfterEmit(d),
                   passes |-> Emit(st.passes, d),
                   raised |-> FALSE]
             ELSE [st EXCEPT !.current_pass = d, !.raised = TRUE]
    ELSE st

InitialLoopState ==
    [current_pass |-> EmptyDict, passes |-> <<>>, raised |-> FALSE]

\* the loop of calculate_passes run over a whole event sequence
RECURSIVE RunLoop(_, _, _)
RunLoop(st, events, name) ==
    IF events = <<>> THEN st
    ELSE RunLoop(LoopBody(st, Head(events), name), Tail(events), name)

\* mutant: the dict of the previous call is still there at the next call
CallLocalsKeepDict(prev_cp, prev_ps) ==
    [InitialLoopState EXCEPT !.current_pass = prev_cp]

\* passes = []; current_pass = {}  at the start of every call, whatever
\* the locals of an earlier call held
CallLocals(prev_cp, prev_ps) == InitialLoopState

\* the list calculate_passes returns for an event sequence
calculate_passes(events, name) ==
    LET st == RunLoop(InitialLoopState, events, name)
    IN  ReturnValue(st.passes, st.current_pass, name)

(***************************************************************************)
(* The sampler: what find_events may yield next.                           *)
(***************************************************************************)
LastTime == stream[Len(stream)].t

\* the first event is at instant 1 of the window; a later one is no
\* earlier than its predecessor
NextTimes ==
    IF stream = <<>> THEN {1} ELSE LastTime .. (LastTime + MaxGap)

\* the elevation at a RISE or SET instant is the threshold being crossed
Event(t, kind, alt) == [t |-> t, event |-> kind, alt |-> alt]

(***************************************************************************)
(* Actions of the extraction loop.                                         *)
(***************************************************************************)
Consume(ev) ==
    LET st == LoopBody([current_pass |-> current_pass, passes |-> passes,
                        raised |-> FALSE], ev, satellite_name)
    IN  /\ stream' = Append(stream, ev)
        /\ current_pass' = st.current_pass
        /\ passes' = st.passes
        /\ pc' = IF st.raised THEN "raised" ELSE "loop"
        /\ UNCHANGED <<result, satellite_name, second_result, batchVars, calendarVars, trackVars>>

RiseEvent ==
    /\ pc = "loop"
    /\ Len(stream) < MaxLen
    /\ \E t \in NextTimes : Consume(Event(t, RISE, min_elevation))

CulminationEvent ==
    /\ pc = "loop"
    /\ Len(stream) < MaxLen
    /\ \E t \in NextTimes, alt \in Elevations :
            Consume(Event(t, CULMINATION, alt))

SetEvent ==
    /\ pc = "loop"
    /\ Len(stream) < MaxLen
    /\ \E t \in NextTimes : Consume(Event(t, SET, min_elevation))

Return ==
    /\ pc = "loop"
    /\ pc' = "done"
    /\ result' = ReturnValue(passes, current_pass, satellite_name)
    /\ UNCHANGED <<stream, current_pass, passes, satellite_name,
                   second_result, batchVars, calendarVars, trackVars>>

\* the batch driver is not running
BatchIdle ==
    /\ files = [service_account |-> "absent", credentials |-> "absent",
                token |-> "absent"]
    /\ config = [readable |-> FALSE, sections |-> FALSE, satellites |-> <<>>]
    /\ outcomes = <<>>
    /\ auth_ok = FALSE
    /\ bpc = "idle"
    /\ exit_code = -1
    /\ attempted = <<>>
    /\ failed_satellites = <<>>
    /\ successful_satellites = 0
    /\ total_events = 0

\* track_satellite has not been called
TrackIdle ==
    /\ tpc = "idle"
    /\ runs = 0
    /\ tle_name = <<>>
    /\ delete_existing = FALSE
    /\ track_days = 0
    /\ track_passes = <<>>
    /\ event_links = <<>>
    /\ insert_failed = {}

\* no calendar is attached
CalendarIdle ==
    /\ calendar = {}
    /\ deleted_count = 0
    /\ last_delete = [called |-> FALSE, name |-> <<>>, days |-> 0,
                      clean |-> FALSE, again |-> FALSE]

Init ==
    /\ CalendarIdle
    /\ TrackIdle
    /\ stream = <<>>
    /\ current_pass = EmptyDict
    /\ passes = <<>>
    /\ pc = "loop"
    /\ result = <<>>
    /\ second_result = <<>>
    /\ satellite_name \in SatelliteNames
    /\ BatchIdle

Next == RiseEvent \/ CulminationEvent \/ SetEvent \/ Return

Spec == Init /\ [][Next]_vars

\* a second calculate_passes call on the same calculator with the same
\* event sequence and satellite name
CallAgain ==
    /\ pc = "done"
    /\ pc' = "again"
    /\ LET st == RunLoop(CallLocals(current_pass, passes), stream,
                         satellite_name)
       IN  second_result' =
               ReturnValue(st.passes, st.current_pass, satellite_name)
    /\ UNCHANGED <<stream, current_pass, passes, result, satellite_name,
                   batchVars, calendarVars, trackVars>>

RepeatNext == Next \/ CallAgain

RepeatSpec == Init /\ [][RepeatNext]_vars

(***************************************************************************)
(* The batch driver: main, load_config and process_satellites.             *)
(***************************************************************************)
SeqsUpTo(S, n) == UNION {[1..k -> S] : k \in 0..n}

\* a satellites entry of config.yaml
SatelliteEntries == [keys : EntryKeys, name : ConfigNames]

\* config.yaml: unreadable, lacking a section, or complete
Configs ==
    {[readable |-> FALSE, sections |-> FALSE, satellites |-> <<>>],
     [readable |-> TRUE, sections |-> FALSE, satellites |-> <<>>]}
    \cup {[readable |-> TRUE, sections |-> TRUE, satellites |-> sats] :
              sats \in SeqsUpTo(SatelliteEntries, MaxSats)}

\* track_satellite either raises or returns a list of event links
TrackOutcomes ==
    {[raises |-> TRUE, links |-> 0]}
    \cup {[raises |-> FALSE, links |-> n] : n \in 0..MaxLinks}

\* mutant: os is imported at the top of the batch module
NameBoundOsImported(n) == n \in BatchModuleGlobals \cup {"os"}

\* lookup of a global name from a function of the batch module
NameBound(n) == n \in BatchModuleGlobals

\* the credential file checks at the top of main: TRUE if main goes on
CredentialsAccepted(f) ==
    IF f.service_account # "absent"
    THEN f.service_account = "valid"
    ELSE IF f.credentials # "absent"
    THEN f.credentials = "valid" /\ f.token = "valid"
    ELSE FALSE

NoStatistics ==
    [raised |-> FALSE, attempted |-> <<>>, failed |-> <<>>,
     successful |-> 0, total |-> 0]

\* for satellite in satellites: ... from the i-th entry on
RECURSIVE SatelliteLoop(_, _, _, _)
SatelliteLoop(sats, outs, i, acc) ==
    IF acc.raised \/ i > Len(sats) THEN acc
    ELSE IF sats[i].keys # {"name", "url"}
    THEN [acc EXCEPT !.raised = TRUE]
    ELSE LET tried == [acc EXCEPT !.attempted = Append(@, sats[i].name)]
         IN  SatelliteLoop(sats, outs, i + 1,
                IF outs[i].raises
                THEN [tried EXCEPT !.failed = Append(@, sats[i].name)]
                ELSE [tried EXCEPT !.successful = @ + 1,
                                   !.total = @ + outs[i].links])

\* process_satellites(config): the statistics it reaches, whether an
\* exception leaves it, and the status it returns otherwise
process_satellites(cfg, outs, auth) ==
    IF ~cfg.sections THEN [NoStatistics EXCEPT !.raised = TRUE]
    ELSE IF ~NameBound("os") THEN [NoStatistics EXCEPT !.raised = TRUE]
    ELSE IF ~auth THEN [NoStatistics EXCEPT !.raised = TRUE]
    ELSE SatelliteLoop(cfg.satellites, outs, 1, NoStatistics)

\* return 0 if not failed_satellites else 1
ReturnCode(failed) == IF failed = <<>> THEN 0 ELSE 1

CheckCredentials ==
    /\ bpc = "main"
    /\ IF CredentialsAccepted(files)
       THEN bpc' = "config" /\ UNCHANGED exit_code
       ELSE bpc' = "exit" /\ exit_code' = 1
    /\ UNCHANGED <<batchEnv, attempted, failed_satellites,
                   successful_satellites, total_events, extractorVars,
                   calendarVars, trackVars>>

LoadConfig ==
    /\ bpc = "config"
    /\ IF config.readable
       THEN bpc' = "process" /\ UNCHANGED exit_code
       ELSE bpc' = "exit" /\ exit_code' = 1
    /\ UNCHANGED <<batchEnv, attempted, failed_satellites,
                   successful_satellites, total_events, extractorVars,
                   calendarVars, trackVars>>

ProcessSatellites ==
    /\ bpc = "process"
    /\ LET r == process_satellites(config, outcomes, auth_ok)
       IN  /\ attempted' = r.attempted
           /\ failed_satellites' = r.failed
           /\ successful_satellites' = r.successful
           /\ total_events' = r.total
           /\ exit_code' = IF r.raised THEN 1 ELSE ReturnCode(r.failed)
    /\ bpc' = "exit"
    /\ UNCHANGED <<batchEnv, extractorVars, calendarVars, trackVars>>

BatchInit ==
    /\ CalendarIdle
    /\ TrackIdle
    /\ files \in [service_account : FileStates, credentials : FileStates,
                  token : FileStates]
    /\ config \in Configs
    /\ outcomes \in [1..Len(config.satellites) -> TrackOutcomes]
    /\ auth_ok \in BOOLEAN
    /\ bpc = "main"
    /\ exit_code = -1
    /\ attempted = <<>>
    /\ failed_satellites = <<>>
    /\ successful_satellites = 0
    /\ total_events = 0
    /\ stream = <<>>
    /\ current_pass = EmptyDict
    /\ passes = <<>>
    /\ pc = "idle"
    /\ result = <<>>
    /\ second_result = <<>>
    /\ satellite_name = "ISS"

BatchNext == CheckCredentials \/ LoadConfig \/ ProcessSatellites

BatchSpec == BatchInit /\ [][BatchNext]_vars

(***************************************************************************)
(* The calendar: GoogleCalendarIntegration.                                *)
(* Instants are whole hours; a title is the sequence of its words and a    *)
(* description the sequence of its words and lines.                        *)
(***************************************************************************)
\* datetime.utcnow() / ts.now() of the run
Now == 0
\* timedelta(days=1) in hours
HoursPerDay == 24
\* days looked back by delete_satellite_events
LookBackDays == 7
\* the provenance marker written into every created event
Marker == "Created by Satellite Pass Tracker"
\* the word appended to the satellite name in the title
PassWord == <<"Pass">>
\* values of days_ahead: the --days default and the default of
\* delete_satellite_events
DaysAheadChoices == {5, 30}
\* names parse_tle_text may return
TleNames == {<<"ISS">>, <<"ISS", "DEB">>}
\* satellite_name = None
NoName == <<>>

\* pat in text
IsSubstring(pat, text) ==
    \E i \in 0..(Len(text) - Len(pat)) :
        SubSeq(text, i + 1, i + Len(pat)) = pat

\* datetime.isoformat() of a timezone-aware UTC datetime
IsoFormat(t) == [instant |-> t, utcoffset |-> 0]

\* the instant an RFC 3339 dateTime denotes
Rfc3339Instant(x) == x.instant - x.utcoffset

EventTime(t) == [dateTime |-> IsoFormat(t), timeZone |-> "UTC"]

\* events found in the calendar that this program did not create in the
\* current run: a user's own, and earlier satellite pass events
ForeignEvents ==
    {[id |-> 1, summary |-> <<"Dentist">>, description |-> <<>>,
      start |-> EventTime(48), end |-> EventTime(49)],
     [id |-> 2, summary |-> <<"Pass", "exam">>, description |-> <<>>,
      start |-> EventTime(48), end |-> EventTime(49)],
     [id |-> 3, summary |-> <<"ISS", "flyover">>,
      description |-> <<"Max", "elevation:", "45", Marker>>,
      start |-> EventTime(48), end |-> EventTime(49)],
     [id |-> 4, summary |-> <<"ISS", "Pass">>,
      description |-> <<"Max", "elevation:", "45", Marker>>,
      start |-> EventTime(50), end |-> EventTime(51)],
     [id |-> 5, summary |-> <<"ISS", "DEB", "Pass">>,
      description |-> <<"Max", "elevation:", "45", Marker>>,
      start |-> EventTime(52), end |-> EventTime(53)],
     [id |-> 6, summary |-> <<"ISS", "Pass">>,
      description |-> <<"Max", "elevation:", "45", Marker>>,
      start |-> EventTime(480), end |-> EventTime(481)]}

StartOf(e) == Rfc3339Instant(e.start.dateTime)

EndOf(e) == Rfc3339Instant(e.end.dateTime)

\* events().list(timeMin, timeMax): the events ending after timeMin and
\* starting before timeMax
InWindow(e, days) ==
    /\ EndOf(e) > Now - LookBackDays * HoursPerDay
    /\ StartOf(e) < Now + days * HoursPerDay

\* orderBy='startTime'
RECURSIVE ByStartTime(_)
ByStartTime(S) ==
    IF S = {} THEN <<>>
    ELSE LET first == CHOOSE e \in S :
                          \A f \in S :
                              \/ StartOf(e) < StartOf(f)
                              \/ StartOf(e) = StartOf(f) /\ e.id <= f.id
         IN  <<first>> \o ByStartTime(S \ {first})

\* events_result.get('items', [])
ListEvents(cal, days) == ByStartTime({e \in cal : InWindow(e, days)})

\* mutant: any event with Pass in its title counts as a satellite event
IsSatelliteEventNoMarker(e, name) ==
    /\ IsSubstring(PassWord, e.summary)
    /\ name # NoName => IsSubstring(name, e.summary)

\* is_satellite_event, with the satellite_name filter when one is given
IsSatelliteEvent(e, name) ==
    /\ IsSubstring(PassWord, e.summary)
    /\ IsSubstring(<<Marker>>, e.description)
    /\ name # NoName => IsSubstring(name, e.summary)

\* events().delete(eventId=id).execute() when it succeeds
ApiDelete(cal, id) == {e \in cal : e.id # id}

\* mutant: deleted_count is incremented for every listed event
DeleteStepCountAll(acc, e, name, failing) ==
    IF IsSatelliteEvent(e, name) /\ e.id \notin failing
    THEN [calendar |-> ApiDelete(acc.calendar, e.id),
          deleted_count |-> acc.deleted_count + 1]
    ELSE [acc EXCEPT !.deleted_count = @ + 1]

\* the body of  for event in events;  failing holds the ids whose delete
\* call raises
DeleteStep(acc, e, name, failing) ==
    IF IsSatelliteEvent(e, name)
    THEN IF e.id \in failing
         THEN acc
         ELSE [calendar |-> ApiDelete(acc.calendar, e.id),
               deleted_count |-> acc.deleted_count + 1]
    ELSE acc

RECURSIVE DeleteLoop(_, _, _, _)
DeleteLoop(acc, events, name, failing) ==
    IF events = <<>> THEN acc
    ELSE DeleteLoop(DeleteStep(acc, Head(events), name, failing),
                    Tail(events), name, failing)

\* delete_satellite_events(satellite_name, days_ahead): the calendar it
\* leaves and the count it returns
delete_satellite_events(cal, name, days, failing) ==
    DeleteLoop([calendar |-> cal, deleted_count |-> 0],
               ListEvents(cal, days), name, failing)

\* the ids of the events a call would try to delete
Targets(cal, name, days) ==
    {e.id : e \in {f \in cal : InWindow(f, days) /\ IsSatelliteEvent(f, name)}}

\* one call of delete_satellite_events on the calendar
DeleteSatelliteEvents ==
    \E name \in TleNames \cup {NoName}, days \in DaysAheadChoices :
        \E failing \in SUBSET Targets(calendar, name, days) :
            LET r == delete_satellite_events(calendar, name, days, failing)
            IN  /\ calendar' = r.calendar
                /\ deleted_count' = r.deleted_count
                /\ last_delete' =
                       [called |-> TRUE, name |-> name, days |-> days,
                        clean |-> failing = {},
                        again |-> /\ last_delete.called
                                  /\ last_delete.clean
                                  /\ last_delete.name = name
                                  /\ last_delete.days = days]
                /\ UNCHANGED <<extractorVars, batchVars, trackVars>>

\* the call extractor and the batch driver are not running
ExtractorIdle ==
    /\ stream = <<>>
    /\ current_pass = EmptyDict
    /\ passes = <<>>
    /\ pc = "idle"
    /\ result = <<>>
    /\ second_result = <<>>
    /\ satellite_name = "ISS"

DeleteInit ==
    /\ calendar \in SUBSET ForeignEvents
    /\ deleted_count = 0
    /\ last_delete = [called |-> FALSE, name |-> <<>>, days |-> 0,
                      clean |-> FALSE, again |-> FALSE]
    /\ ExtractorIdle
    /\ BatchIdle
    /\ TrackIdle

DeleteNext == DeleteSatelliteEvents

DeleteSpec == DeleteInit /\ [][DeleteNext]_vars

(***************************************************************************)
(* SatellitePassTracker.track_satellite, called from the command line.     *)
(***************************************************************************)
\* event streams find_events may deliver to a track_satellite call: no
\* pass, one pass, two passes
SampledStreams ==
    {<<>>,
     <<Event(1, RISE, min_elevation), Event(2, CULMINATION, 45),
       Event(3, SET, min_elevation)>>,
     <<Event(1, RISE, min_elevation), Event(2, CULMINATION, 45),
       Event(3, SET, min_elevation), Event(4, RISE, min_elevation),
       Event(5, CULMINATION, 45), Event(6, SET, min_elevation)>>}

\* the events found in the calendar when the first call starts
TrackedBefore == {e \in ForeignEvents : e.id \in {1, 4, 5}}

\* f'{max_elevation:.1f}' at the precision of the model
FormatElevation(x) == ToString(x)

\* mutant: the title is the satellite name alone
PassEventNameOnly(p, id) ==
    [id |-> id,
     summary |-> p["satellite_name"],
     description |->
         <<"Max", "elevation:", FormatElevation(p["max_elevation"]), Marker>>,
     start |-> EventTime(p["rise_time"]),
     end |-> EventTime(p["set_time"])]

\* the event dict of create_pass_event, with the id the insert gives it
PassEvent(p, id) ==
    [id |-> id,
     summary |-> p["satellite_name"] \o PassWord,
     description |->
         <<"Max", "elevation:", FormatElevation(p["max_elevation"]), Marker>>,
     start |-> EventTime(p["rise_time"]),
     end |-> EventTime(p["set_time"])]

\* the id events().insert gives a new event
FreshId(cal) ==
    CHOOSE n \in 7..(7 + Cardinality(cal)) : \A e \in cal : e.id # n

\* events().insert(body=event).execute() when it succeeds
ApiInsert(cal, ev) == cal \cup {ev}

\* mutant: existing events are deleted after the new ones are created
NextPositionDeleteLast(pos, del) ==
    IF pos = "fetch" THEN "calc"
    ELSE IF pos = "calc" THEN "create"
    ELSE IF pos = "create" THEN (IF del THEN "delete" ELSE "returned")
    ELSE "returned"

\* the order of the steps of track_satellite
NextPosition(pos, del) ==
    IF pos = "fetch" THEN (IF del THEN "delete" ELSE "calc")
    ELSE IF pos = "delete" THEN "calc"
    ELSE IF pos = "calc" THEN "create"
    ELSE "returned"

\* a call of track_satellite starts with the TLE retrieval, which raises
\* or yields the satellite name
FetchTle ==
    /\ tpc \in {"idle", "returned", "raised"}
    /\ runs < MaxRuns
    /\ runs' = runs + 1
    /\ track_passes' = <<>>
    /\ event_links' = <<>>
    /\ insert_failed' = {}
    /\ \E del \in BOOLEAN, days \in DaysAheadChoices :
          /\ delete_existing' = del
          /\ track_days' = days
          /\ \/ /\ tpc' = "raised"
                /\ tle_name' = <<>>
             \/ \E name \in TleNames :
                   /\ tle_name' = name
                   /\ tpc' = NextPosition("fetch", del)
    /\ UNCHANGED <<calendarVars, extractorVars, batchVars>>

\* if delete_existing: delete_satellite_events(name, days_ahead)
DeleteExisting ==
    /\ tpc = "delete"
    /\ \E failing \in SUBSET Targets(calendar, tle_name, track_days) :
          LET r == delete_satellite_events(calendar, tle_name, track_days,
                                           failing)
          IN  /\ calendar' = r.calendar
              /\ deleted_count' = r.deleted_count
              /\ last_delete' =
                     [called |-> TRUE, name |-> tle_name,
                      days |-> track_days, clean |-> failing = {},
                      again |-> FALSE]
    /\ tpc' = NextPosition("delete", delete_existing)
    /\ UNCHANGED <<runs, tle_name, delete_existing, track_days, track_passes,
                   event_links, insert_failed, extractorVars, batchVars>>

\* passes = self.calculator.calculate_passes(...), or the propagation raises
CalculatePasses ==
    /\ tpc = "calc"
    /\ \/ /\ tpc' = "raised"
          /\ UNCHANGED track_passes
       \/ \E events \in SampledStreams :
             /\ track_passes' = calculate_passes(events, tle_name)
             /\ tpc' = NextPosition("calc", delete_existing)
    /\ UNCHANGED <<runs, tle_name, delete_existing, track_days, event_links,
                   insert_failed, calendarVars, extractorVars, batchVars>>

\* one iteration of  for sat_pass in passes:  the insert succeeds, or it
\* raises and the exception leaves track_satellite
CreateEvent ==
    /\ tpc = "create"
    /\ Len(event_links) < Len(track_passes)
    /\ LET k == Len(event_links) + 1
           id == FreshId(calendar)
       IN  \/ /\ calendar' = ApiInsert(calendar, PassEvent(track_passes[k], id))
              /\ event_links' = Append(event_links, id)
              /\ UNCHANGED <<tpc, insert_failed>>
           \/ /\ tpc' = "raised"
              /\ insert_failed' = insert_failed \cup {k}
              /\ UNCHANGED <<calendar, event_links>>
    /\ UNCHANGED <<runs, tle_name, delete_existing, track_days, track_passes,
                   deleted_count, last_delete, extractorVars, batchVars>>

\* return event_links
ReturnLinks ==
    /\ tpc = "create"
    /\ Len(event_links) = Len(track_passes)
    /\ tpc' = NextPosition("create", delete_existing)
    /\ UNCHANGED <<runs, tle_name, delete_existing, track_days, track_passes,
                   event_links, insert_failed, calendarVars, extractorVars,
                   batchVars>>

TrackInit ==
    /\ calendar \in SUBSET TrackedBefore
    /\ deleted_count = 0
    /\ last_delete = [called |-> FALSE, name |-> <<>>, days |-> 0,
                      clean |-> FALSE, again |-> FALSE]
    /\ TrackIdle
    /\ ExtractorIdle
    /\ BatchIdle

TrackNext ==
    FetchTle \/ DeleteExisting \/ CalculatePasses \/ CreateEvent
        \/ ReturnLinks

TrackSpec == TrackInit /\ [][TrackNext]_vars

(***************************************************************************)
(* Vocabulary of the properties.                                           *)
(***************************************************************************)
Kinds(s) == [i \in 1..Len(s) |-> s[i].event]

StrictlyAscending(s) == \A i \in 1..(Len(s) - 1) : s[i].t < s[i + 1].t

\* a concatenation of RISE, CULMINATION, SET triples, timestamps ascending
WellFormedTriples(s) ==
    /\ Len(s) % 3 = 0
    /\ \A i \in 1..Len(s) : s[i].event = (i - 1) % 3
    /\ StrictlyAscending(s)

OrderedTimes(p) ==
    p["rise_time"] < p["culmination_time"]
        /\ p["culmination_time"] < p["set_time"]

PassTimes(p) == {p["rise_time"], p["culmination_time"], p["set_time"]}

\* the sampler only reports culminations at or above the threshold
SamplerThresholded(s) ==
    \A i \in 1..Len(s) : s[i].event = CULMINATION => s[i].alt >= min_elevation

\* the extractor holds no open pass before the i-th event of s
IdleBefore(s, i, name) ==
    ~Has(RunLoop(InitialLoopState, SubSeq(s, 1, i - 1), name).current_pass,
         "rise_time")

\* s without the CULMINATION and SET events that arrive while idle
RECURSIVE KeepFrom(_, _, _)
KeepFrom(s, i, name) ==
    IF i > Len(s) THEN <<>>
    ELSE IF s[i].event \in {CULMINATION, SET} /\ IdleBefore(s, i, name)
    THEN KeepFrom(s, i + 1, name)
    ELSE <<s[i]>> \o KeepFrom(s, i + 1, name)

RemoveIdleEvents(s, name) == KeepFrom(s, 1, name)

Consumed == Len(stream') = Len(stream) + 1

LastEvent == stream'[Len(stream')]

(***************************************************************************)
(* Properties of the extraction loop.                                      *)
(***************************************************************************)
\* C1: for a stream of well-formed RISE, CULMINATION, SET triples with
\* ascending timestamps the call returns exactly one pass per triple, in
\* input order, carrying the three timestamps of its triple, with
\* rise_time < culmination_time < set_time.
C1_OnePassPerTriple ==
    (pc = "done" /\ WellFormedTriples(stream)) =>
        /\ Len(result) = Len(stream) \div 3
        /\ \A k \in 1..Len(result) :
              /\ result[k]["rise_time"] = stream[3 * k - 2].t
              /\ result[k]["culmination_time"] = stream[3 * k - 1].t
              /\ result[k]["set_time"] = stream[3 * k].t
              /\ result[k]["max_elevation"] = stream[3 * k - 1].alt
              /\ OrderedTimes(result[k])

C1_Witness ==
    /\ pc = "done"
    /\ WellFormedTriples(stream)
    /\ Len(stream) = 6
    /\ Len(result) = 2

\* C2: for every strictly time-ascending event sequence, well-formed or
\* not, every emitted pass has rise_time < culmination_time < set_time.
C2_StrictTimes ==
    StrictlyAscending(stream) =>
        /\ \A k \in 1..Len(passes) : OrderedTimes(passes[k])
        /\ \A k \in 1..Len(result) : OrderedTimes(result[k])

C2_Witness ==
    /\ pc = "done"
    /\ StrictlyAscending(stream)
    /\ ~WellFormedTriples(stream)
    /\ Kinds(stream) = <<RISE, CULMINATION, RISE, CULMINATION, SET>>
    /\ Len(result) = 1

\* C3: the passes of one call are ordered by rise_time, a pass sets no
\* later than the next one rises, and (timestamps identifying events when
\* they are strictly ascending) no event gives a timestamp to two passes.
C3_NonOverlapping ==
    /\ \A i \in 1..(Len(passes) - 1) :
          /\ passes[i]["rise_time"] <= passes[i + 1]["rise_time"]
          /\ passes[i]["set_time"] <= passes[i + 1]["rise_time"]
    /\ StrictlyAscending(stream) =>
          \A i, j \in 1..Len(passes) :
              i # j => PassTimes(passes[i]) \cap PassTimes(passes[j]) = {}
    /\ pc = "done" => result = passes

C3_Witness ==
    /\ pc = "done"
    /\ Len(result) = 2
    /\ StrictlyAscending(stream)
    /\ result[1]["set_time"] < result[2]["rise_time"]

\* C4: a pass is appended only at a SET event and only when the open pass
\* holds a rise and a culmination; ending the stream appends nothing, so a
\* pass still open at the end is dropped.
C4_Step ==
    /\ passes' # passes =>
          /\ Consumed
          /\ LastEvent.event = SET
          /\ SetReady(current_pass)
          /\ current_pass["rise_time"] <= current_pass["culmination_time"]
          /\ passes' = Append(passes,
                              SetRecord(current_pass, LastEvent.t,
                                        satellite_name))
    /\ (pc = "loop" /\ pc' = "done") =>
          /\ result' = passes
          /\ Len(result') <=
                Cardinality({i \in 1..Len(stream) : stream[i].event = SET})

C4_EmitOnlyAtSet == [][C4_Step]_vars

C4_Witness ==
    /\ pc = "done"
    /\ Len(result) = 1
    /\ Has(current_pass, "culmination_time")
    /\ stream[Len(stream)].event = CULMINATION

\* C5: a CULMINATION or SET arriving while no rise is pending changes
\* neither the open-pass dict nor the pass list, and the returned list is
\* the one returned for the stream with those events removed.
C5_Step ==
    (Consumed /\ ~Has(current_pass, "rise_time")
        /\ LastEvent.event \in {CULMINATION, SET}) =>
            (current_pass' = current_pass /\ passes' = passes)

C5_SameAsRemoved ==
    pc = "done" =>
        result = calculate_passes(RemoveIdleEvents(stream, satellite_name),
                                  satellite_name)

C5_IdleEventsDiscarded == [][C5_Step]_vars /\ []C5_SameAsRemoved

C5_Witness ==
    /\ pc = "done"
    /\ Len(stream) >= 5
    /\ stream[1].event = CULMINATION
    /\ stream[2].event = SET
    /\ Len(result) = 1
    /\ Len(RemoveIdleEvents(stream, satellite_name)) = Len(stream) - 2

\* C6: a second RISE before any CULMINATION replaces the pending rise: the
\* pass completed by the following CULMINATION and SET has the second
\* RISE's timestamp, and RISE, RISE, CULMINATION, SET yields one pass.
C6_SecondRiseWins ==
    /\ \A i \in 1..(Len(stream) - 3) :
          (/\ stream[i].event = RISE
           /\ stream[i + 1].event = RISE
           /\ stream[i + 2].event = CULMINATION
           /\ stream[i + 3].event = SET) =>
              \E k \in 1..Len(passes) :
                  /\ passes[k]["rise_time"] = stream[i + 1].t
                  /\ passes[k]["culmination_time"] = stream[i + 2].t
                  /\ passes[k]["set_time"] = stream[i + 3].t
                  /\ passes[k]["max_elevation"] = stream[i + 2].alt
    /\ (Len(stream) >= 2
            /\ stream[Len(stream)].event = RISE
            /\ stream[Len(stream) - 1].event = RISE) =>
          current_pass = [rise_time |-> stream[Len(stream)].t]
    /\ (pc = "done" /\ Kinds(stream) = <<RISE, RISE, CULMINATION, SET>>) =>
          /\ Len(result) = 1
          /\ result[1]["rise_time"] = stream[2].t

C6_Witness ==
    /\ pc = "done"
    /\ Kinds(stream) = <<RISE, RISE, CULMINATION, SET>>
    /\ stream[1].t < stream[2].t
    /\ Len(result) = 1
    /\ result[1]["rise_time"] = stream[2].t

\* C7: the loop never raises: the record handed to SatellitePass at a SET
\* always has exactly the five fields, whatever the order of the events.
C7_NeverRaises ==
    /\ pc # "raised"
    /\ \A k \in 1..Len(passes) : DOMAIN passes[k] = PassFields
    /\ DOMAIN current_pass \subseteq PassFields

C7_Witness ==
    /\ pc = "done"
    /\ Kinds(stream) = <<SET, CULMINATION, RISE, SET, CULMINATION, SET>>
    /\ Len(result) = 1
    /\ DOMAIN result[1] = PassFields

\* C8: when every culmination the sampler reports is at or above the
\* threshold, every emitted pass has max_elevation >= min_elevation.
C8_AboveThreshold ==
    SamplerThresholded(stream) =>
        \A k \in 1..Len(passes) : passes[k]["max_elevation"] >= min_elevation

C8_Witness ==
    /\ SamplerThresholded(stream)
    /\ Len(passes) = 2
    /\ passes[1]["max_elevation"] >= min_elevation
    /\ \E i \in 1..Len(stream) : stream[i].event = CULMINATION

(***************************************************************************)
(* Properties of the batch driver.                                         *)
(***************************************************************************)
\* credential files, config.yaml and authentication are all in order
ValidRun ==
    /\ CredentialsAccepted(files)
    /\ config.readable
    /\ config.sections
    /\ \A i \in 1..Len(config.satellites) :
          config.satellites[i].keys = {"name", "url"}
    /\ auth_ok

ConfiguredNames ==
    [i \in 1..Len(config.satellites) |-> config.satellites[i].name]

\* the names of the listed satellites whose track_satellite raises
RECURSIVE RaisingNamesFrom(_)
RaisingNamesFrom(i) ==
    IF i > Len(config.satellites) THEN <<>>
    ELSE (IF outcomes[i].raises THEN <<config.satellites[i].name>> ELSE <<>>)
            \o RaisingNamesFrom(i + 1)

\* C9: in a batch run every listed satellite is attempted exactly once, in
\* configuration order, whether or not earlier ones failed, and each
\* failure of track_satellite is recorded in the failure list.
C9_EverySatelliteAttempted ==
    (bpc = "exit" /\ ValidRun) =>
        /\ attempted = ConfiguredNames
        /\ failed_satellites = RaisingNamesFrom(1)

\* C10: with valid credential and config files the exit status is
\* non-zero if a satellite failed and zero if every listed satellite was
\* processed successfully.
C10_ExitStatus ==
    (bpc = "exit" /\ ValidRun) =>
        (exit_code = 0 <=>
            \A i \in 1..Len(config.satellites) : ~outcomes[i].raises)

(***************************************************************************)
(* Further properties of the extraction loop.                              *)
(***************************************************************************)
\* C16: a second call on the same event sequence and satellite name
\* returns the same list as the first; nothing the first call left behind
\* reaches the second.
C16_SameResultTwice == pc = "again" => second_result = result

C16_Witness ==
    /\ pc = "again"
    /\ Kinds(stream) = <<SET, RISE, CULMINATION, SET, RISE, CULMINATION>>
    /\ Has(current_pass, "culmination_time")
    /\ Len(result) = 1
    /\ second_result = result

\* C17: a SET arriving while a rise is pending and no culmination is
\* recorded discards the open pass, so after any SET no rise is pending, and
\* RISE, SET, CULMINATION, SET yields an empty result.
C17_SetWithoutCulminationResets ==
    /\ (stream # <<>> /\ stream[Len(stream)].event = SET) =>
          current_pass = EmptyDict
    /\ (pc = "done" /\ Kinds(stream) = <<RISE, SET, CULMINATION, SET>>) =>
          result = <<>>

\* C18: a RISE arriving after a culmination and before the SET starts a new
\* pass holding only the new rise, so a SET directly after it emits
\* nothing, and RISE, CULMINATION, RISE, SET yields an empty result.
C18_AfterRise ==
    /\ (stream # <<>> /\ stream[Len(stream)].event = RISE) =>
          current_pass = [rise_time |-> stream[Len(stream)].t]
    /\ (pc = "done" /\ Kinds(stream) = <<RISE, CULMINATION, RISE, SET>>) =>
          result = <<>>

C18_Step ==
    (Consumed /\ stream # <<>> /\ stream[Len(stream)].event = RISE
        /\ LastEvent.event = SET) =>
            (passes' = passes /\ current_pass' = current_pass)

C18_RiseDiscardsIncompletePass == []C18_AfterRise /\ [][C18_Step]_vars

C18_Witness ==
    /\ pc = "done"
    /\ Kinds(stream) = <<RISE, CULMINATION, RISE, SET>>
    /\ result = <<>>
    /\ current_pass = [rise_time |-> stream[3].t]

\* the index of the last CULMINATION event of s
LastCulmination(s) ==
    CHOOSE i \in 1..Len(s) :
        /\ s[i].event = CULMINATION
        /\ \A j \in (i + 1)..Len(s) : s[j].event # CULMINATION

\* C19: culmination_time and max_elevation are written together from one
\* CULMINATION event; each further CULMINATION before the SET overwrites
\* both, and the emitted pass carries those of the last one.
C19_Pair ==
    /\ Has(current_pass, "culmination_time")
          <=> Has(current_pass, "max_elevation")
    /\ Has(current_pass, "culmination_time") =>
          /\ \E i \in 1..Len(stream) : stream[i].event = CULMINATION
          /\ current_pass["culmination_time"] =
                stream[LastCulmination(stream)].t
          /\ current_pass["max_elevation"] =
                stream[LastCulmination(stream)].alt
    /\ (pc = "done"
            /\ Kinds(stream) = <<RISE, CULMINATION, CULMINATION, SET>>) =>
          /\ Len(result) = 1
          /\ result[1]["culmination_time"] = stream[3].t
          /\ result[1]["max_elevation"] = stream[3].alt

C19_Step ==
    passes' # passes =>
        /\ passes'[Len(passes')]["culmination_time"] =
              current_pass["culmination_time"]
        /\ passes'[Len(passes')]["max_elevation"] =
              current_pass["max_elevation"]

C19_CulminationPairFromLastEvent == []C19_Pair /\ [][C19_Step]_vars

C19_Witness ==
    /\ pc = "done"
    /\ Kinds(stream) = <<RISE, CULMINATION, CULMINATION, SET>>
    /\ stream[2].alt = 45
    /\ stream[3].alt = 5
    /\ stream[2].t < stream[3].t
    /\ result[1]["max_elevation"] = 5
    /\ result[1]["culmination_time"] = stream[3].t

(***************************************************************************)
(* Further properties of the batch driver.                                 *)
(***************************************************************************)
\* config.yaml cannot be loaded, lacks a section, or lists a satellite
\* without name or url
ConfigProblem ==
    \/ ~config.readable
    \/ ~config.sections
    \/ \E i \in 1..Len(config.satellites) :
          config.satellites[i].keys # {"name", "url"}

HasMarker(e) == IsSubstring(<<Marker>>, e.description)

MatchesFilter(e, name) == name = NoName \/ IsSubstring(name, e.summary)

\* a delete_satellite_events call has just been made
DeleteCalled == last_delete'.called /\ calendarVars' # calendarVars

\* C13 as stated: the call deletes no event without the marker and, with
\* a filter, none whose title lacks the name; when no delete call fails,
\* every listed event with the marker (matching the filter) is removed.
C13_OriginalStep ==
    DeleteCalled =>
        /\ \A e \in calendar \ calendar' :
              HasMarker(e) /\ MatchesFilter(e, last_delete'.name)
        /\ last_delete'.clean =>
              \A e \in calendar :
                  (/\ InWindow(e, last_delete'.days)
                   /\ HasMarker(e)
                   /\ MatchesFilter(e, last_delete'.name)) => e \notin calendar'

C13_Original == [][C13_OriginalStep]_vars

\* C13 (amended): the call deletes no event without the marker and, with
\* a filter, none whose title lacks the name; when no delete call fails,
\* every listed event with the marker and with Pass in its title (matching
\* the filter) is removed, and a marked event whose title lacks Pass stays.
C13_AmendedStep ==
    DeleteCalled =>
        /\ \A e \in calendar \ calendar' :
              /\ HasMarker(e)
              /\ MatchesFilter(e, last_delete'.name)
              /\ IsSubstring(PassWord, e.summary)
              /\ InWindow(e, last_delete'.days)
        /\ last_delete'.clean =>
              \A e \in calendar :
                  (/\ InWindow(e, last_delete'.days)
                   /\ HasMarker(e)
                   /\ IsSubstring(PassWord, e.summary)
                   /\ MatchesFilter(e, last_delete'.name)) => e \notin calendar'

C13_DeletesOnlyMarkedPassEvents == [][C13_AmendedStep]_vars

C13_Witness ==
    /\ last_delete.called
    /\ last_delete.clean
    /\ last_delete.name = <<"ISS">>
    /\ last_delete.days = 5
    /\ deleted_count = 2
    /\ {e.id : e \in calendar} = {1, 2, 3, 6}

\* C14: a call that finds no matching event returns 0 and leaves the
\* calendar unchanged, and so does a call repeating the arguments of the
\* call just before it when every deletion of that call succeeded.
C14_Step ==
    DeleteCalled =>
        /\ Targets(calendar, last_delete'.name, last_delete'.days) = {} =>
              (deleted_count' = 0 /\ calendar' = calendar)
        /\ last_delete'.again =>
              (deleted_count' = 0 /\ calendar' = calendar)

C14_DeleteIdempotent == [][C14_Step]_vars

C14_Witness ==
    /\ last_delete.called
    /\ last_delete.again
    /\ last_delete.name = NoName
    /\ last_delete.days = 30
    /\ deleted_count = 0
    /\ {e.id : e \in calendar} = {1, 2, 3}

(***************************************************************************)
(* Properties of track_satellite.                                          *)
(***************************************************************************)
Range(f) == {f[i] : i \in DOMAIN f}

TrackEnded == tpc \in {"returned", "raised"}

\* the calendar holds the event of the k-th pass, inserted by this call
CreatedFor(k) ==
    \E e \in calendar :
        /\ k <= Len(event_links)
        /\ e.id = event_links[k]
        /\ e = PassEvent(track_passes[k], e.id)

\* C11: when the insert for one pass fails, the events of the other passes
\* of the satellite are still created: after the call every calculated
\* pass either has its event or is one whose insert was tried and failed.
C11_RemainingPassesCreated ==
    TrackEnded =>
        \A k \in 1..Len(track_passes) : k \in insert_failed \/ CreatedFor(k)

\* C15: every event inserted by create_pass_event starts at the pass's
\* rise_time and ends at its set_time, both tagged UTC, carries the marker
\* and the satellite name in its title, and is listed and selected by
\* delete_satellite_events without a filter and with that name as filter.
C15_CreatedEventsSelectable ==
    \A k \in 1..Len(event_links) :
        \E e \in calendar :
            /\ e.id = event_links[k]
            /\ StartOf(e) = track_passes[k]["rise_time"]
            /\ EndOf(e) = track_passes[k]["set_time"]
            /\ e.start.timeZone = "UTC"
            /\ e.end.timeZone = "UTC"
            /\ HasMarker(e)
            /\ IsSubstring(tle_name, e.summary)
            /\ InWindow(e, track_days)
            /\ IsSatelliteEvent(e, NoName)
            /\ IsSatelliteEvent(e, tle_name)
            /\ e.id \in Targets(calendar, NoName, track_days)
            /\ e.id \in Targets(calendar, tle_name, track_days)

C15_Witness ==
    /\ tpc = "returned"
    /\ tle_name = <<"ISS", "DEB">>
    /\ Len(event_links) = 2
    /\ Cardinality(Targets(calendar, tle_name, track_days)) >= 2

\* C20: in a call with delete_existing the TLE retrieval comes first and
\* leaves the calendar alone (also when it fails), existing events are
\* deleted before any pass is calculated or event created, and no event
\* inserted by the call is deleted by it.
C20_Step ==
    /\ runs' # runs => calendar' = calendar
    /\ (calendar \ calendar' # {}) =>
          /\ tpc = "delete"
          /\ delete_existing
          /\ track_passes = <<>>
          /\ event_links = <<>>
    /\ (calendar' \ calendar # {}) => (tpc = "create" /\ tpc' = "create")
    /\ runs' = runs =>
          \A e \in calendar : e.id \in Range(event_links) => e \in calendar'

C20_Order ==
    /\ tpc \in {"delete", "calc"} => (track_passes = <<>> /\ event_links = <<>>)
    /\ (tpc = "raised" /\ tle_name = <<>>) =>
          (event_links = <<>> /\ track_passes = <<>>)
    /\ tpc \in {"delete", "calc", "create", "returned"} => tle_name # <<>>

C20_StepsInOrder == [][C20_Step]_vars /\ []C20_Order

C20_Witness ==
    /\ tpc = "returned"
    /\ runs = 1
    /\ delete_existing
    /\ last_delete.called
    /\ deleted_count = 2
    /\ Len(event_links) = 2
    /\ \A k \in 1..2 : CreatedFor(k)

(***************************************************************************)
(* Properties of successive track_satellite calls on one calendar, as the  *)
(* batch loop makes them.                                                  *)
(***************************************************************************)
\* e was inserted by a track_satellite call, not found in the calendar
CreatedByTracker(e) == e \notin ForeignEvents

\* e is a pass event of the satellite called name
BelongsTo(e, name) == e.summary = name \o PassWord

\* C21: with delete_existing enabled, processing one satellite deletes only
\* events belonging to that satellite: an event created earlier for a
\* satellite of a different name is never removed by the call.
C21_Step ==
    \A e \in calendar \ calendar' :
        CreatedByTracker(e) => BelongsTo(e, tle_name)

C21_DeletesOnlyOwnEvents == [][C21_Step]_vars

====
